---- MODULE Spec2Model ----
(***************************************************************************)
(* A model of the MGISA landform-mapping scripts:                          *)
(*   - ensemble/ensemble_E5_classification.py  (weights, vote, WB rule)    *)
(*   - assessment/accuracy_1pass_assessment.py (per-class accuracy)        *)
(*   - assessment/accuracy_confusion_matrix.py (reads the CM table)        *)
(*                                                                         *)
(* Numbers.  Python floats are modelled as exact extended rationals        *)
(* [n, d]: d > 0 is the rational n/d in lowest terms, [1, 0] is +inf and   *)
(* [0, 0] is NaN.  Float rounding error is not modelled; the tolerances    *)
(* the code uses to absorb it (1e-12, 1e-15) are modelled as written.      *)
(***************************************************************************)
EXTENDS Integers, Sequences, FiniteSets, TLC

(***************************************************************************)
(* Bounds of the model.                                                    *)
(***************************************************************************)
\* Metric values (IoU, in steps of the table's resolution) range over 0..MaxMetric.
MaxMetric == 1

\* INTERSECT_FC holds 1..MaxRows rows.
MaxRows == 2

\* Shape_Area ranges over 0..MaxArea units of AreaUnit.
MaxArea == 2

(***************************************************************************)
(* Parameters of ensemble_E5_classification.py.                            *)
(***************************************************************************)
\* The keys of CLASS_FIELDS, in the dict's insertion order.
CLASS_FIELDS == << "RTv11A2D50", "RTv11A2D60", "SVMv11A2D50", "SVMv11A2D60" >>

CLF_PRIORITY == << "SVMv11A2D60", "RTv11A2D60", "SVMv11A2D50", "RTv11A2D50" >>

CLFS == { CLASS_FIELDS[i] : i \in 1..Len(CLASS_FIELDS) }

WEIGHT_POWER == 1

USE_LOWCONF_FALLBACK == TRUE

\* TAU = 0.55
TAU == [n |-> 11, d |-> 20]

ENABLE_WB_ELEV_RULE == TRUE

SVM_RIVER_CLF == "SVMv11A2D60"

CLS_WATER == "WATER BODY"

\* ELEV_THRESH = 220.0 (metres)
ELEV_THRESH == 220

\* 1e-12 = 1 / (E6 * E6), 1e-15 = 1 / (E9 * E6)
E6 == 1000000

E9 == 1000000000

\* Python's None, as a field value or a label.
None == "<None>"

\* The rank sorted() gives a classifier that is not in the priority list.
NO_RANK == 999

(***************************************************************************)
(* Extended rationals.                                                     *)
(***************************************************************************)
RECURSIVE GCD(_, _)
GCD(a, b) == IF b = 0 THEN a ELSE GCD(b, a % b)

Abs(x) == IF x < 0 THEN -x ELSE x

NaN == [n |-> 0, d |-> 0]

Inf == [n |-> 1, d |-> 0]

Zero == [n |-> 0, d |-> 1]

\* n/d in lowest terms, d > 0.
Rat(n, d) == LET g == GCD(Abs(n), d) IN [n |-> n \div g, d |-> d \div g]

IsNaN(a) == a.d = 0 /\ a.n = 0

IsInf(a) == a.d = 0 /\ a.n = 1

IsFinite(a) == a.d > 0

\* a + b on floats: NaN absorbs, then inf absorbs.
FAdd(a, b) ==
    IF IsNaN(a) \/ IsNaN(b) THEN NaN
    ELSE IF IsInf(a) \/ IsInf(b) THEN Inf
    ELSE Rat(a.n * b.d + b.n * a.d, a.d * b.d)

\* a / b on floats, for a >= 0 and b > 0: inf / inf is NaN, finite / inf is 0.
FDiv(a, b) ==
    IF IsNaN(a) \/ IsNaN(b) THEN NaN
    ELSE IF IsInf(b) THEN (IF IsInf(a) THEN NaN ELSE Zero)
    ELSE IF IsInf(a) THEN Inf
    ELSE Rat(a.n * b.d, a.d * b.n)

\* a > 0 on floats (NaN compares false).
FPos(a) == ~IsNaN(a) /\ a.n > 0

\* a < b, a and b finite.
FLt(a, b) == a.n * b.d < b.n * a.d

\* a <= b, a and b finite.
FLe(a, b) == a.n * b.d <= b.n * a.d

\* The numerator and denominator of a - b over the common denominator.
DiffNum(a, b) == a.n * b.d - b.n * a.d

DiffDen(a, b) == a.d * b.d

\* abs(a - b) < 1e-12
Within12(a, b) ==
    LET x == Abs(DiffNum(a, b))
        y == DiffDen(a, b)
    IN  x = 0 \/ ((y - 1) \div x) \div E6 >= E6

\* a > b + 1e-15
Above15(a, b) ==
    LET x == DiffNum(a, b)
        y == DiffDen(a, b)
    IN  x > 0 /\ (y \div x) \div E9 < E6

\* abs(a - b) <= 1e-15
Within15(a, b) ==
    LET x == Abs(DiffNum(a, b))
        y == DiffDen(a, b)
    IN  x = 0 \/ (y \div x) \div E9 >= E6

RECURSIVE FSum(_)
\* sum() of a sequence of floats, left to right from 0.
FSum(s) == IF s = << >> THEN Zero ELSE FAdd(FSum(SubSeq(s, 1, Len(s) - 1)), s[Len(s)])

(***************************************************************************)
(* Metric tables and weights.                                              *)
(***************************************************************************)
\* The classes the per-class accuracy tables may hold a row for.
TblClasses == { "WATER BODY", "FAN" }

\* A class predicted by classifiers but in no accuracy table.
Classes == TblClasses \cup { "RIDGE" }

\* float(val), NaN => 0.0, any exception => 0.0, then max(0.0, v).
ParseMetric(cell) ==
    IF cell.kind = "num" THEN (IF cell.v < 0 THEN Zero ELSE Rat(cell.v, 1))
    ELSE IF cell.kind = "inf" THEN Inf
    ELSE Zero

\* read_metric_table: class -> metric value, for the rows of the table.
read_metric_table(tbl) ==
    [c \in { k \in DOMAIN tbl : tbl[k].kind # "absent" } |-> ParseMetric(tbl[c])]

\* dict.get(key, default)
Get(dict, key, default) == IF key \in DOMAIN dict THEN dict[key] ELSE default

\* The values of a per-classifier dict, in the order its keys were inserted.
ClfValues(d) == [i \in 1..Len(CLASS_FIELDS) |-> d[CLASS_FIELDS[i]]]

RECURSIVE FPow(_, _)
\* w ** power for a whole power >= 0.
FPow(w, power) ==
    IF power = 0 THEN Rat(1, 1)
    ELSE IF IsNaN(w) THEN NaN
    ELSE IF IsInf(w) THEN Inf
    ELSE LET r == FPow(w, power - 1) IN Rat(w.n * r.n, w.d * r.d)

\* normalize_per_class without the division by the class's sum.
normalize_NoDivision(weight_map, power) ==
    [cls \in DOMAIN weight_map |->
        [clf \in CLFS |-> IF power # 1 THEN FPow(weight_map[cls][clf], power)
                          ELSE weight_map[cls][clf]]]

normalize_per_class(weight_map, power) ==
    [cls \in DOMAIN weight_map |->
        LET powered == [clf \in CLFS |->
                           IF power # 1 THEN FPow(weight_map[cls][clf], power)
                           ELSE weight_map[cls][clf]]
            s == FSum(ClfValues(powered))
        IN  IF FPos(s)
            THEN [clf \in CLFS |-> FDiv(powered[clf], s)]
            ELSE [clf \in CLFS |-> Zero]]

\* build_weight_dict up to its call of normalize_per_class: the dict raw.
RawWeights(tbls) ==
    LET W == [clf \in CLFS |-> read_metric_table(tbls[clf])]
        all_classes == UNION { DOMAIN W[clf] : clf \in CLFS }
    IN  [cls \in all_classes |-> [clf \in CLFS |-> Get(W[clf], cls, Zero)]]

build_weight_dict(tbls) == normalize_per_class(RawWeights(tbls), WEIGHT_POWER)

\* Wnorm.get(cls, {}).get(clf, 0.0)
WGet(W, cls, clf) == IF cls \in DOMAIN W THEN Get(W[cls], clf, Zero) ELSE Zero

(***************************************************************************)
(* pick_ensemble_label                                                    *)
(***************************************************************************)
\* The index of x in the sequence s (0 when absent).
IndexOf(s, x) ==
    IF \E i \in 1..Len(s) : s[i] = x
    THEN CHOOSE i \in 1..Len(s) : s[i] = x /\ \A j \in 1..(i - 1) : s[j] # x
    ELSE 0

\* The key sorted() uses for a classifier: its priority index, else 999.
PriorityKey(order, clf) == IF IndexOf(order, clf) > 0 THEN IndexOf(order, clf) - 1 ELSE NO_RANK

RECURSIVE InsertByKey(_, _)
\* Insert the pair x = [k, x] into the key-sorted sequence s after every element
\* whose key is <= x's.
InsertByKey(s, x) ==
    IF s = << >> THEN << x >>
    ELSE IF Head(s).k <= x.k THEN << Head(s) >> \o InsertByKey(Tail(s), x)
    ELSE << x >> \o s

RECURSIVE SortPairs(_)
SortPairs(s) ==
    IF s = << >> THEN << >>
    ELSE InsertByKey(SortPairs(SubSeq(s, 1, Len(s) - 1)), s[Len(s)])

\* sorted(s, key=...): stable; keys[i] is the key of s[i].
SortedByKey(s, keys) ==
    LET sorted == SortPairs([i \in 1..Len(s) |-> [k |-> keys[i], x |-> s[i]]])
    IN  [i \in 1..Len(sorted) |-> sorted[i].x]

\* AddVote with "score[cls] = w" for "score[cls] += w".
AddVote_Overwrite(votes, cls, clf, w) ==
    IF \E i \in 1..Len(votes) : votes[i].cls = cls
    THEN LET i == CHOOSE k \in 1..Len(votes) : votes[k].cls = cls
         IN  [votes EXCEPT ![i] = [cls |-> cls, score |-> w,
                                   voters |-> Append(@.voters, [clf |-> clf, w |-> w])]]
    ELSE Append(votes, [cls |-> cls, score |-> w, voters |-> << [clf |-> clf, w |-> w] >>])

\* The score and voters_by_class entry of class cls after one more vote (clf, w).
AddVote(votes, cls, clf, w) ==
    IF \E i \in 1..Len(votes) : votes[i].cls = cls
    THEN LET i == CHOOSE k \in 1..Len(votes) : votes[k].cls = cls
         IN  [votes EXCEPT ![i] = [cls |-> cls, score |-> FAdd(@.score, w),
                                   voters |-> Append(@.voters, [clf |-> clf, w |-> w])]]
    ELSE Append(votes, [cls |-> cls, score |-> FAdd(Zero, w),
                        voters |-> << [clf |-> clf, w |-> w] >>])

RECURSIVE VoteLoop(_, _, _, _)
\* for clf, cls in preds.items(): the dicts score and voters_by_class, as one
\* sequence of [cls, score, voters] in the order the classes were first seen.
VoteLoop(preds, W, i, votes) ==
    IF i > Len(CLASS_FIELDS) THEN votes
    ELSE LET clf == CLASS_FIELDS[i]
         IN  IF clf \notin DOMAIN preds \/ preds[clf] \in { None, "" }
             THEN VoteLoop(preds, W, i + 1, votes)
             ELSE VoteLoop(preds, W, i + 1,
                           AddVote(votes, preds[clf], clf, WGet(W, preds[clf], clf)))

RECURSIVE MaxScore(_, _, _)
\* max(score.values()), from entry i on, m the maximum so far.
MaxScore(votes, i, m) ==
    IF i > Len(votes) THEN m
    ELSE MaxScore(votes, i + 1, IF FLt(m, votes[i].score) THEN votes[i].score ELSE m)

RECURSIVE MaxWeight(_, _, _)
\* max(w for (_clf, w) in voters), from voter i on, m the maximum so far.
MaxWeight(voters, i, m) ==
    IF i > Len(voters) THEN m
    ELSE MaxWeight(voters, i + 1, IF FLt(m, voters[i].w) THEN voters[i].w ELSE m)

\* max((w for (_clf, w) in voters_by_class[c]), default=0.0)
TopSingle(voters) == IF voters = << >> THEN Zero ELSE MaxWeight(voters, 2, voters[1].w)

RECURSIVE TieBreak1(_, _, _)
\* The loop over winners from index i on: st = [best_w, cands] keeps the classes
\* whose best single voter is heaviest.
TieBreak1(winners, i, st) ==
    IF i > Len(winners) THEN st
    ELSE LET t == TopSingle(winners[i].voters)
         IN  IF Above15(t, st.best_w)
             THEN TieBreak1(winners, i + 1, [best_w |-> t, cands |-> << winners[i] >>])
             ELSE IF Within15(t, st.best_w)
             THEN TieBreak1(winners, i + 1, [st EXCEPT !.cands = Append(@, winners[i])])
             ELSE TieBreak1(winners, i + 1, st)

RECURSIVE MinRank(_, _, _, _)
\* min(ranks) over the voters that are in the priority list, 999 when none is.
MinRank(voters, order, i, m) ==
    IF i > Len(voters) THEN m
    ELSE LET k == IndexOf(order, voters[i].clf)
         IN  MinRank(voters, order, i + 1, IF k > 0 /\ k - 1 < m THEN k - 1 ELSE m)

\* best_priority_rank_for_class ignoring the priority list.
best_priority_rank_NoOrder(voters, order) == NO_RANK

best_priority_rank_for_class(voters, order) == MinRank(voters, order, 1, NO_RANK)

RECURSIVE RankKeys(_, _, _)
\* The sort keys of the tie-break candidates from index i on.
RankKeys(cands, order, i) ==
    IF i > Len(cands) THEN << >>
    ELSE << best_priority_rank_for_class(cands[i].voters, order) >> \o RankKeys(cands, order, i + 1)

RECURSIVE BestVoterFrom(_, _, _)
\* max(voters, key=lambda t: t[1]): the first voter of maximal weight.
BestVoterFrom(voters, i, best) ==
    IF i > Len(voters) THEN best
    ELSE BestVoterFrom(voters, i + 1, IF FLt(best.w, voters[i].w) THEN voters[i] ELSE best)

RECURSIVE SameLabel(_, _, _)
\* [clf for clf, pred in preds.items() if pred == label], from classifier i on.
SameLabel(preds, label, i) ==
    IF i > Len(CLASS_FIELDS) THEN << >>
    ELSE LET clf == CLASS_FIELDS[i]
         IN  (IF clf \in DOMAIN preds /\ preds[clf] = label THEN << clf >> ELSE << >>)
             \o SameLabel(preds, label, i + 1)

RECURSIVE PriorityKeys(_, _, _)
PriorityKeys(clfs, order, i) ==
    IF i > Len(clfs) THEN << >>
    ELSE << PriorityKey(order, clfs[i]) >> \o PriorityKeys(clfs, order, i + 1)

\* SrcOf without the sort: the classifiers in field order.
SrcOf_Unsorted(preds, order, label) == SameLabel(preds, label, 1)

\* sorted([clf for clf, pred in preds.items() if pred == label], key=priority index)
SrcOf(preds, order, label) ==
    LET same == SameLabel(preds, label, 1)
    IN  SortedByKey(same, PriorityKeys(same, order, 1))

RECURSIVE LabelScore(_, _, _, _)
\* sum(Wnorm.get(label, {}).get(clf, 0.0) for clf, pred in preds.items() if pred == label)
LabelScore(preds, W, label, i) ==
    IF i = 0 THEN Zero
    ELSE LET clf == CLASS_FIELDS[i]
             rest == LabelScore(preds, W, label, i - 1)
         IN  IF clf \in DOMAIN preds /\ preds[clf] = label
             THEN FAdd(rest, WGet(W, label, clf)) ELSE rest

RECURSIVE WithinOfMax(_, _, _)
\* [c for c, s in score.items() if abs(s - max_score) < 1e-12], from entry i on.
WithinOfMax(votes, max_score, i) ==
    IF i > Len(votes) THEN << >>
    ELSE (IF Within12(votes[i].score, max_score) THEN << votes[i] >> ELSE << >>)
         \o WithinOfMax(votes, max_score, i + 1)

\* The winner of the vote with its tie-breaks: the entry of votes that wins.
VoteWinner(votes, max_score, order) ==
    LET winners == WithinOfMax(votes, max_score, 1)
    IN  IF Len(winners) = 1 THEN winners[1]
        ELSE LET tb1 == TieBreak1(winners, 1, [best_w |-> [n |-> -1, d |-> 1], cands |-> << >>])
                 cands == tb1.cands
             IN  IF Len(cands) = 1 THEN cands[1]
                 ELSE SortedByKey(cands, RankKeys(cands, order, 1))[1]

\* LowConfidence with "<=" for "<".
LowConfidence_AtOrBelow(use_lowconf, max_score, tau) == use_lowconf /\ FLe(max_score, tau)

\* if use_lowconf and max_score < tau
LowConfidence(use_lowconf, max_score, tau) == use_lowconf /\ FLt(max_score, tau)

\* pick_ensemble_label: (winner, src, max_score), with the locals score /
\* voters_by_class (votes), the vote's winner before the fallback (vote) and
\* whether the low-confidence fallback ran (lowconf).
pick_ensemble_label(preds, W, order, use_lowconf, tau) ==
    LET votes == VoteLoop(preds, W, 1, << >>)
    IN  IF votes = << >>
        THEN [winner |-> None, src |-> << >>, score |-> Zero,
              votes |-> votes, vote |-> None, lowconf |-> FALSE]
        ELSE
        LET max_score == MaxScore(votes, 2, votes[1].score)
            won == VoteWinner(votes, max_score, order)
            low == LowConfidence(use_lowconf, max_score, tau)
            best_clf == IF won.voters # << >>
                        THEN BestVoterFrom(won.voters, 2, won.voters[1]).clf
                        ELSE order[1]
            winner == IF low THEN Get(preds, best_clf, won.cls) ELSE won.cls
        IN  [winner |-> winner,
             src |-> SrcOf(preds, order, winner),
             score |-> IF low THEN LabelScore(preds, W, winner, Len(CLASS_FIELDS)) ELSE max_score,
             votes |-> votes, vote |-> won.cls, lowconf |-> low]

(***************************************************************************)
(* State.                                                                  *)
(***************************************************************************)
VARIABLES
    tables,      \* the four per-class accuracy tables: classifier -> class -> cell
    raw,         \* build_weight_dict's raw: class -> classifier -> metric value
    Wnorm,       \* main's Wnorm: class -> classifier -> normalized weight
    pc,          \* where main is: "start", "loop", "written"
    row,         \* the segment row under the update cursor
    isect,       \* the rows of INTERSECT_FC
    stats,       \* the three Summary Statistics tables
    df_metrics,  \* df_metrics before rounding: Class -> columns
    perclass,    \* the rows of PERCLASS_TBL: Class -> columns
    class_col,   \* the Class column of PERCLASS_TBL, row by row
    oa,          \* the Overall_Accuracy written to OA_TBL
    apc,         \* where the assessment is
    gdb,         \* OUT_GDB: name of a table or feature class -> its fields
    seg_fields,  \* the fields of SEG_FC
    e5_labels,   \* the ensemble has written its labels to the rows of SEG_FC
    assessed,    \* the << RUN_TAG, TAG >> the assessment has completed for
    png          \* the confusion-matrix figure has been saved

ensVars == << tables, raw, Wnorm, pc, row >>

accVars == << isect, stats, df_metrics, perclass, class_col, oa, apc >>

flowVars == << gdb, seg_fields, e5_labels, assessed, png >>

vars == << tables, raw, Wnorm, pc, row, isect, stats, df_metrics, perclass, class_col, oa, apc,
           gdb, seg_fields, e5_labels, assessed, png >>

\* A table cell holding a number 0..MaxMetric.
NumCells == { [kind |-> "num", v |-> k] : k \in 0..MaxMetric }

\* A table cell: no row for the class, a number (possibly negative), or one of
\* the values float() makes NaN, raises on, or makes infinite.
AnyCells ==
    { [kind |-> "num", v |-> k] : k \in (-1)..MaxMetric }
    \cup { [kind |-> k, v |-> 0] : k \in { "absent", "nan", "null", "text", "inf" } }

\* The values a classifier's prediction field may hold: a class, None, and (in
\* the first classifier's field) the empty string.
FieldVals(clf) == { None } \cup Classes \cup (IF clf = CLASS_FIELDS[1] THEN { "" } ELSE {})

\* The prediction fields of a segment row.
RowVals ==
    { f \in [CLFS -> { None, "" } \cup Classes] : \A clf \in CLFS : f[clf] \in FieldVals(clf) }

\* elev_by_oid.get(oid): None, or the segment's mean elevation in metres.
NoElev == [null |-> TRUE, z |-> 0]

ElevVals == { NoElev } \cup { [null |-> FALSE, z |-> z] : z \in (ELEV_THRESH - 1)..(ELEV_THRESH + 1) }

NoRow == [vals |-> << >>, mean_z |-> NoElev, preds |-> << >>, res |-> << >>,
          E5 |-> None, E5_src |-> None, E5_score |-> Zero]

\* The unit Shape_Area is counted in: 0.125 (exact in binary floating point).
AreaUnit == [n |-> 1, d |-> 8]

\* The classes of the reference landforms and of the predictions assessed.
AccClasses == { "FAN", "RIDGE" }

\* The ensemble script is not part of the run.
EnsIdle ==
    /\ tables = << >>
    /\ raw = << >>
    /\ Wnorm = << >>
    /\ pc = "idle"
    /\ row = NoRow

\* The contents of the assessment's outputs are not part of the run.
AccIdle ==
    /\ isect = << >>
    /\ stats = << >>
    /\ df_metrics = << >>
    /\ perclass = << >>
    /\ class_col = << >>
    /\ oa = Zero
    /\ apc = "idle"

\* The geodatabase and the order of the scripts are not part of the run.
FlowIdle ==
    /\ gdb = << >>
    /\ seg_fields = {}
    /\ e5_labels = FALSE
    /\ assessed = {}
    /\ png = FALSE

(***************************************************************************)
(* main                                                                    *)
(***************************************************************************)
\* The accuracy tables hold finite metric values; the row of the second table
\* class holds the same value in the four tables.
Init ==
    /\ \E wb \in [CLFS -> NumCells], fan \in NumCells :
          tables = [clf \in CLFS |-> [c \in TblClasses |-> IF c = CLS_WATER THEN wb[clf] ELSE fan]]
    /\ raw = << >>
    /\ Wnorm = << >>
    /\ pc = "start"
    /\ row = NoRow
    /\ AccIdle
    /\ FlowIdle

\* ensure_fields, build_weight_dict, maybe_export_weights_csv, build_mean_elev_by_oid.
Setup ==
    /\ pc = "start"
    /\ raw' = RawWeights(tables)
    /\ Wnorm' = build_weight_dict(tables)
    /\ pc' = "loop"
    /\ UNCHANGED << tables, row, accVars, flowVars >>

\* preds[clf_key] = None if val in (None, "") else str(val); then drop the falsy ones.
PredsOf(vals) == [clf \in { k \in CLFS : vals[k] \notin { None, "" } } |-> vals[clf]]

RECURSIVE JoinPlus(_)
\* "+".join(src)
JoinPlus(src) ==
    IF src = << >> THEN ""
    ELSE IF Len(src) = 1 THEN src[1]
    ELSE JoinPlus(SubSeq(src, 1, Len(src) - 1)) \o "+" \o src[Len(src)]

\* ElevAtOrBelow with "<" for "<=".
ElevAtOrBelow_Strict(mean_z) == ~mean_z.null /\ mean_z.z < ELEV_THRESH

\* if (mean_z is not None) and (mean_z <= ELEV_THRESH)
ElevAtOrBelow(mean_z) == ~mean_z.null /\ mean_z.z <= ELEV_THRESH

\* The WATER BODY elevation rule applied to pick_ensemble_label's result.
WbElevRule(preds, W, order, mean_z, res) ==
    IF ENABLE_WB_ELEV_RULE /\ ElevAtOrBelow(mean_z) /\ Get(preds, SVM_RIVER_CLF, None) = CLS_WATER
    THEN [winner |-> CLS_WATER,
          src |-> SrcOf(preds, order, CLS_WATER),
          score |-> LabelScore(preds, W, CLS_WATER, Len(CLASS_FIELDS))]
    ELSE [winner |-> res.winner, src |-> res.src, score |-> res.score]

\* The values main writes to E5, E5_src and E5_score.
Written(out) ==
    [E5 |-> IF out.winner # None /\ out.winner # "" THEN out.winner ELSE None,
     E5_src |-> IF out.src # << >> THEN JoinPlus(out.src) ELSE None,
     E5_score |-> out.score]

\* The body of the update-cursor loop for one segment row.
ProcessRow ==
    /\ pc = "loop"
    /\ \E vals \in RowVals :
       \E preds \in { PredsOf(vals) } :
       \E res \in { pick_ensemble_label(preds, Wnorm, CLF_PRIORITY, USE_LOWCONF_FALLBACK, TAU) } :
       \E mean_z \in ElevVals :
       \E w \in { Written(WbElevRule(preds, Wnorm, CLF_PRIORITY, mean_z, res)) } :
          row' = [vals |-> vals, mean_z |-> mean_z, preds |-> preds, res |-> res,
                  E5 |-> w.E5, E5_src |-> w.E5_src, E5_score |-> w.E5_score]
    /\ pc' = "written"
    /\ UNCHANGED << tables, raw, Wnorm, accVars, flowVars >>

Next == Setup \/ ProcessRow

Spec == Init /\ [][Next]_vars

\* build_weight_dict on tables of any contents.
InitWeights ==
    /\ \E wb \in [CLFS -> AnyCells], fan \in [CLFS -> { [kind |-> "absent", v |-> 0], [kind |-> "num", v |-> 1] }] :
          tables = [clf \in CLFS |-> [c \in TblClasses |-> IF c = CLS_WATER THEN wb[clf] ELSE fan[clf]]]
    /\ raw = << >>
    /\ Wnorm = << >>
    /\ pc = "start"
    /\ row = NoRow
    /\ AccIdle
    /\ FlowIdle

SpecWeights == InitWeights /\ [][Setup]_vars

\* Metric values of which 11 / (11 + 9) is TAU, 0.55.
TauCells == { [kind |-> "num", v |-> 9], [kind |-> "num", v |-> 11] }

\* main on accuracy tables whose normalized weights sum to values below, at
\* and above TAU; the row of the second table class holds the same value in
\* the four tables.
InitTau ==
    /\ \E wb \in [CLFS -> TauCells], fan \in TauCells \cup { [kind |-> "num", v |-> 0] } :
          tables = [clf \in CLFS |-> [c \in TblClasses |-> IF c = CLS_WATER THEN wb[clf] ELSE fan]]
    /\ raw = << >>
    /\ Wnorm = << >>
    /\ pc = "start"
    /\ row = NoRow
    /\ AccIdle
    /\ FlowIdle

SpecTau == InitTau /\ [][Next]_vars

(***************************************************************************)
(* accuracy_1pass_assessment.py: parameters and names.                     *)
(***************************************************************************)
REF_CLASS_FIELD == "NameD"

PRED_FIELD == "E5"

OUT_GDB == "C:\\path\\to\\Accuracy_Assessment.gdb"

RUN_TAG == "TrialRunXX"

TAG == "E5"

INTERSECT_FC(out_gdb, run_tag, tag) == out_gdb \o "\\" \o run_tag \o "_Segments_Intersect_RLPs_" \o tag

REFCLASS_FIELD == "RefClass"

PREDCLASS_FIELD(tag) == tag \o "_PredClass"

CORRECT_FIELD(tag) == tag \o "_Correct"

\* CM_TBL with the run tag left out of the name.
CM_TBL_NoRunTag(out_gdb, run_tag, tag) == out_gdb \o "\\" \o tag \o "_CM_tbl"

CM_TBL(out_gdb, run_tag, tag) == out_gdb \o "\\" \o run_tag \o "_" \o tag \o "_CM_tbl"

REFTOTALS_TBL(out_gdb, run_tag, tag) == out_gdb \o "\\" \o run_tag \o "_" \o tag \o "_RefTotals_tbl"

PREDTOTALS_TBL(out_gdb, run_tag, tag) == out_gdb \o "\\" \o run_tag \o "_" \o tag \o "_PredTotals_tbl"

PERCLASS_TBL(out_gdb, run_tag, tag) == out_gdb \o "\\" \o run_tag \o "_" \o tag \o "_PerClassAccuracy_tbl"

OA_TBL(out_gdb, run_tag, tag) == out_gdb \o "\\" \o run_tag \o "_" \o tag \o "_OverallAccuracy_tbl"

\* The name Summary Statistics gives the field of a statistic: SUM_Shape_Area.
StatField(stat, field) == stat \o "_" \o field

\* The fields of a table Statistics writes for the given case fields
\* (its OBJECTID and FREQUENCY are read by no script).
StatisticsFields(case_fields) == case_fields \o << StatField("SUM", "Shape_Area") >>

\* The columns of the structured array written to PERCLASS_TBL.
PerClassColumns ==
    << "Class", "Correct_Area", "Ref_Total_Area", "Pred_Total_Area",
       "FN_Area", "FN_Prop", "FP_Area", "FP_Prop",
       "Producer_Accuracy", "User_Accuracy", "IoU", "F1_Score" >>

\* The columns of the array written to OA_TBL.
OAColumns == << "Overall_Accuracy", "Classifier", "Date" >>

(***************************************************************************)
(* accuracy_1pass_assessment.py: the contents of its outputs.              *)
(***************************************************************************)
\* What a raised ZeroDivisionError leaves in place of a value.
ZeroDivisionError == [n |-> 0, d |-> -1]

Raised(a) == a.d < 0

IsZero(a) == a.d > 0 /\ a.n = 0

\* bool(a) of a float: false for 0.0 only.
Truthy(a) == ~IsZero(a)

\* a + b, a - b and a * b on finite floats.
PyAdd(a, b) == IF Raised(a) \/ Raised(b) THEN ZeroDivisionError ELSE FAdd(a, b)

PySub(a, b) ==
    IF Raised(a) \/ Raised(b) THEN ZeroDivisionError
    ELSE IF IsNaN(a) \/ IsNaN(b) THEN NaN
    ELSE Rat(a.n * b.d - b.n * a.d, a.d * b.d)

PyMul(a, b) ==
    IF Raised(a) \/ Raised(b) THEN ZeroDivisionError
    ELSE IF IsNaN(a) \/ IsNaN(b) THEN NaN
    ELSE Rat(a.n * b.n, a.d * b.d)

\* a / b on Python floats, a >= 0: dividing by zero raises.
PyDiv(a, b) ==
    IF Raised(a) \/ Raised(b) THEN ZeroDivisionError
    ELSE IF IsZero(b) THEN ZeroDivisionError
    ELSE FDiv(a, b)

\* safe_div without its test of the denominator.
safe_div_Unguarded(a, b) == PyDiv(a, b)

\* (a / b) if (b and b != 0) else 0.0
safe_div(a, b) == IF Truthy(b) /\ ~IsZero(b) THEN PyDiv(a, b) ELSE Zero

RECURSIVE Pow10(_)
Pow10(k) == IF k = 0 THEN 1 ELSE 10 * Pow10(k - 1)

\* DataFrame.round: x to k decimals, a tie going to the even neighbour.
Round(x, k) ==
    IF ~IsFinite(x) THEN x
    ELSE LET num == x.n * Pow10(k)
             q == num \div x.d
             twice == 2 * (num - q * x.d)
             r == IF twice < x.d THEN q
                  ELSE IF twice > x.d THEN q + 1
                  ELSE IF q % 2 = 0 THEN q ELSE q + 1
         IN  Rat(r, Pow10(k))

\* A case value Statistics does not group by.
AnyCase == "<any>"

RECURSIVE AreaSum(_, _, _, _)
\* SUM of Shape_Area, in units, over the rows 1..i of the case << ref, pred >>.
AreaSum(rows, ref, pred, i) ==
    IF i = 0 THEN 0
    ELSE AreaSum(rows, ref, pred, i - 1)
         + (IF (ref = AnyCase \/ rows[i].RefClass = ref) /\ (pred = AnyCase \/ rows[i].PredClass = pred)
            THEN rows[i].Shape_Area ELSE 0)

\* arcpy.analysis.Statistics(INTERSECT_FC, ..., [["Shape_Area", "SUM"]], case fields):
\* one row per combination of case values in the rows, a null value being one
\* of the case values.
Statistics(rows, by_ref, by_pred) ==
    LET cases == { [Ref |-> IF by_ref THEN rows[i].RefClass ELSE AnyCase,
                    Pred |-> IF by_pred THEN rows[i].PredClass ELSE AnyCase] : i \in 1..Len(rows) }
    IN  [k \in cases |-> PyMul(Rat(AreaSum(rows, k.Ref, k.Pred, Len(rows)), 1), AreaUnit)]

\* TableToNumPyArray on a text field: a null becomes the string "None".
ToNumPy(v) == IF v = None THEN "None" ELSE v

\* 1 if (refv is not None and predv is not None and refv == predv) else 0,
\* without the two tests for None.
CorrectOf_NoNullTest(refv, predv) == IF refv = predv THEN 1 ELSE 0

\* 1 if (refv is not None and predv is not None and refv == predv) else 0
CorrectOf(refv, predv) == IF refv # None /\ predv # None /\ refv = predv THEN 1 ELSE 0

\* df_diag: Class -> Correct_Area, from the rows of df_cm with Ref == Pred.
DfDiag(cm) ==
    LET diag == { k \in DOMAIN cm : ToNumPy(k.Ref) = ToNumPy(k.Pred) }
    IN  [c \in { ToNumPy(k.Ref) : k \in diag } |->
            cm[CHOOSE k \in diag : ToNumPy(k.Ref) = c]]

\* df_ref: Class -> Ref_Total_Area.
DfRef(ref_totals) ==
    [c \in { ToNumPy(k.Ref) : k \in DOMAIN ref_totals } |->
        ref_totals[CHOOSE k \in DOMAIN ref_totals : ToNumPy(k.Ref) = c]]

\* df_pred: Class -> Pred_Total_Area.
DfPred(pred_totals) ==
    [c \in { ToNumPy(k.Pred) : k \in DOMAIN pred_totals } |->
        pred_totals[CHOOSE k \in DOMAIN pred_totals : ToNumPy(k.Pred) = c]]

\* fillna(0.0)
Fillna(x) == IF IsNaN(x) THEN Zero ELSE x

\* The two merges and the fillna: a row for every Class of df_ref.
Merged(st) ==
    LET df_diag == DfDiag(st.cm)
        df_ref == DfRef(st.ref_totals)
        df_pred == DfPred(st.pred_totals)
    IN  [c \in DOMAIN df_ref |->
            [Correct_Area |-> Fillna(Get(df_diag, c, NaN)),
             Ref_Total_Area |-> Fillna(df_ref[c]),
             Pred_Total_Area |-> Fillna(Get(df_pred, c, NaN))]]

RECURSIVE Repeat(_, _)
\* n rows of the class c.
Repeat(c, n) == IF n = 0 THEN << >> ELSE << c >> \o Repeat(c, n - 1)

\* MergeRows for an inner merge: no row where the other side has no match.
MergeRows_Inner(n) == n

\* The rows a merge gives one row of its kept side: one for each of the n
\* matching rows of the other side, and one row of NaN where there is none.
MergeRows(n) == IF n = 0 THEN 1 ELSE n

RECURSIVE MergedKeys(_, _)
\* The Class column after the two merges, for the rows of df_ref with case
\* values in refs: df_diag right-merged into df_ref, df_pred left-merged in.
MergedKeys(st, refs) ==
    IF refs = {} THEN << >>
    ELSE LET k == CHOOSE x \in refs : TRUE
             c == ToNumPy(k.Ref)
             diag == { d \in DOMAIN st.cm : ToNumPy(d.Ref) = ToNumPy(d.Pred) /\ ToNumPy(d.Ref) = c }
             pred == { d \in DOMAIN st.pred_totals : ToNumPy(d.Pred) = c }
         IN  Repeat(c, MergeRows(Cardinality(diag)) * MergeRows(Cardinality(pred)))
             \o MergedKeys(st, refs \ { k })

\* The Class column of df_metrics, and of the table written from it.
MergedClasses(st) == MergedKeys(st, DOMAIN st.ref_totals)

\* The metric columns of one row of df_metrics.
MetricsOf(m) ==
    LET c == m.Correct_Area
        r == m.Ref_Total_Area
        p == m.Pred_Total_Area
        pa == safe_div(c, r)
        ua == safe_div(c, p)
        two == Rat(2, 1)
        fn == PySub(r, c)
        fp == PySub(p, c)
    IN  [Correct_Area |-> c, Ref_Total_Area |-> r, Pred_Total_Area |-> p,
         Producer_Accuracy |-> pa,
         User_Accuracy |-> ua,
         IoU |-> safe_div(c, PySub(PyAdd(r, p), c)),
         F1_Score |-> IF Raised(PyAdd(pa, ua)) THEN ZeroDivisionError
                      ELSE IF ~IsZero(PyAdd(pa, ua))
                           THEN safe_div(PyMul(two, PyMul(pa, ua)), PyAdd(pa, ua))
                           ELSE Zero,
         FN_Area |-> fn,
         FN_Prop |-> safe_div(fn, r),
         FP_Area |-> fp,
         FP_Prop |-> safe_div(fp, p)]

\* A ZeroDivisionError was raised while the metric columns were computed.
AnyRaised(df) ==
    \E c \in DOMAIN df : \E col \in DOMAIN df[c] : Raised(df[c][col])

\* df_metrics.round({...}): areas to 2 decimals, ratios to 3.
RoundRow(m) ==
    [Correct_Area |-> Round(m.Correct_Area, 2),
     Ref_Total_Area |-> Round(m.Ref_Total_Area, 2),
     Pred_Total_Area |-> Round(m.Pred_Total_Area, 2),
     FN_Area |-> Round(m.FN_Area, 2),
     FP_Area |-> Round(m.FP_Area, 2),
     Producer_Accuracy |-> Round(m.Producer_Accuracy, 3),
     User_Accuracy |-> Round(m.User_Accuracy, 3),
     IoU |-> Round(m.IoU, 3),
     F1_Score |-> Round(m.F1_Score, 3),
     FN_Prop |-> Round(m.FN_Prop, 3),
     FP_Prop |-> Round(m.FP_Prop, 3)]

RECURSIVE ColumnSum(_, _, _)
\* df_out[col].sum() over the classes S.
ColumnSum(df, col, S) ==
    IF S = {} THEN Zero
    ELSE LET c == CHOOSE x \in S : TRUE
         IN  FAdd(df[c][col], ColumnSum(df, col, S \ { c }))

\* round(overall_accuracy, 4)
OverallAccuracy(df_out) ==
    LET correct == ColumnSum(df_out, "Correct_Area", DOMAIN df_out)
        total == ColumnSum(df_out, "Ref_Total_Area", DOMAIN df_out)
    IN  Round(IF ~IsZero(total) THEN FDiv(correct, total) ELSE Zero, 4)

\* The rows Intersect writes: the attributes of both inputs and the area.
IntersectRows ==
    [NameD : AccClasses \cup { None }, pred : AccClasses \cup { None }, Shape_Area : 0..MaxArea]

\* The state after step 1, Intersect.
InitAcc ==
    /\ EnsIdle
    /\ FlowIdle
    /\ \E n \in 1..MaxRows : isect \in [1..n -> IntersectRows]
    /\ stats = << >>
    /\ df_metrics = << >>
    /\ perclass = << >>
    /\ class_col = << >>
    /\ oa = Zero
    /\ apc = "intersected"

\* Step 2, first half: AddField for the three fields, CalculateField for
\* RefClass and <TAG>_PredClass.  The new <TAG>_Correct is null in every row.
CalculateFields ==
    /\ apc = "intersected"
    /\ isect' = [i \in 1..Len(isect) |->
                    [NameD |-> isect[i].NameD, pred |-> isect[i].pred,
                     Shape_Area |-> isect[i].Shape_Area,
                     RefClass |-> isect[i].NameD, PredClass |-> isect[i].pred]]
    /\ apc' = "calculated"
    /\ UNCHANGED << stats, df_metrics, perclass, class_col, oa, ensVars, flowVars >>

\* Step 2, second half: the update cursor over RefClass, <TAG>_PredClass and
\* <TAG>_Correct.
UpdateCorrect ==
    /\ apc = "calculated"
    /\ isect' = [i \in 1..Len(isect) |->
                    [NameD |-> isect[i].NameD, pred |-> isect[i].pred,
                     Shape_Area |-> isect[i].Shape_Area,
                     RefClass |-> isect[i].RefClass, PredClass |-> isect[i].PredClass,
                     Correct |-> CorrectOf(isect[i].RefClass, isect[i].PredClass)]]
    /\ apc' = "updated"
    /\ UNCHANGED << stats, df_metrics, perclass, class_col, oa, ensVars, flowVars >>

\* Step 3: the three Summary Statistics tables.
SummaryStatistics ==
    /\ apc = "updated"
    /\ stats' = [cm |-> Statistics(isect, TRUE, TRUE),
                 ref_totals |-> Statistics(isect, TRUE, FALSE),
                 pred_totals |-> Statistics(isect, FALSE, TRUE)]
    /\ apc' = "summarized"
    /\ UNCHANGED << isect, df_metrics, perclass, class_col, oa, ensVars, flowVars >>

\* Step 4: the per-class metrics, rounded and written to PERCLASS_TBL; a
\* ZeroDivisionError ends the script before the table is written.
PerClassAccuracy ==
    /\ apc = "summarized"
    /\ \E merged \in { Merged(stats) } :
       \E df \in { [c \in DOMAIN merged |-> MetricsOf(merged[c])] } :
          /\ df_metrics' = df
          /\ IF AnyRaised(df)
             THEN perclass' = perclass /\ class_col' = class_col /\ apc' = "raised"
             ELSE /\ perclass' = [c \in DOMAIN df |-> RoundRow(df[c])]
                  /\ class_col' = MergedClasses(stats)
                  /\ apc' = "perclass"
    /\ UNCHANGED << isect, stats, oa, ensVars, flowVars >>

\* Step 5: the overall accuracy, written to OA_TBL.
WriteOverallAccuracy ==
    /\ apc = "perclass"
    /\ oa' = OverallAccuracy(perclass)
    /\ apc' = "done"
    /\ UNCHANGED << isect, stats, df_metrics, perclass, class_col, ensVars, flowVars >>

NextAcc ==
    \/ CalculateFields
    \/ UpdateCorrect
    \/ SummaryStatistics
    \/ PerClassAccuracy
    \/ WriteOverallAccuracy

SpecAcc == InitAcc /\ [][NextAcc]_vars

(***************************************************************************)
(* The scripts as runs over OUT_GDB and SEG_FC.                            *)
(***************************************************************************)
E5_FIELD == "E5"

E5_SRC_FIELD == "E5_src"

E5_SCORE_FIELD == "E5_score"

WEIGHT_METRIC_COL == "IoU"

\* The values of CLASS_FIELDS: the prediction field of a classifier.
ClassFieldOf(clf) == clf \o "_Classname"

\* TBL_RT_D50, TBL_RT_D60, TBL_SVM_D50, TBL_SVM_D60 as written, by the
\* classifier build_weight_dict reads each for.
TBL ==
    [RTv11A2D50 |-> "C:\\path\\to\\Accuracy_Assessment.gdb\\RT_D50_PerClassAccuracy_tbl",
     RTv11A2D60 |-> "C:\\path\\to\\Accuracy_Assessment.gdb\\RT_D60_PerClassAccuracy_tbl",
     SVMv11A2D50 |-> "C:\\path\\to\\Accuracy_Assessment.gdb\\SVM_D50_PerClassAccuracy_tbl",
     SVMv11A2D60 |-> "C:\\path\\to\\Accuracy_Assessment.gdb\\SVM_D60_PerClassAccuracy_tbl"]

\* The assessment's TAG of each classifier.
ClfTag ==
    [RTv11A2D50 |-> "RT_D50", RTv11A2D60 |-> "RT_D60",
     SVMv11A2D50 |-> "SVM_D50", SVMv11A2D60 |-> "SVM_D60"]

\* The values the assessment is run with: TAG, and RUN_TAG.
Tags == { ClfTag[clf] : clf \in CLFS } \cup { TAG }

RunTags == { RUN_TAG, "LT_TrialRun11" }

\* PRED_FIELD as set for a TAG: E5, or the classifier's prediction field.
PredFieldOf(tag) ==
    IF tag = TAG THEN PRED_FIELD
    ELSE ClassFieldOf(CHOOSE clf \in CLFS : ClfTag[clf] = tag)

\* The four TBL_ paths edited to the per-class tables of one assessment run tag.
TblOfRun(run_tag) == [clf \in CLFS |-> PERCLASS_TBL(OUT_GDB, run_tag, ClfTag[clf])]

\* The settings of the four TBL_ paths the ensemble script is run with.
TblSettings == { TBL } \cup { TblOfRun(run_tag) : run_tag \in RunTags }

\* accuracy_confusion_matrix.py
conf_matrix_table == "C:\\path\\to\\Accuracy_Assessment.gdb\\TrialRunXX_E5_CM_tbl"

\* The fields TableToNumPyArray is asked for.
CM_READ_FIELDS == << "RefClass", "E5_PredClass", "SUM_Shape_Area" >>

SeqRange(s) == { s[i] : i \in 1..Len(s) }

\* Write (or overwrite) the table or feature class called name.
Put(db, name, fields) ==
    [n \in DOMAIN db \cup { name } |-> IF n = name THEN fields ELSE db[n]]

\* A cursor opens on any table, whether it exists or not.
CanRead_Always(db, path, fields) == TRUE

\* A cursor (SearchCursor, TableToNumPyArray) opens on the table at path with
\* the fields asked for; otherwise the call raises.
CanRead(db, path, fields) ==
    /\ path \in DOMAIN db
    /\ fields \subseteq db[path]

\* The fields of INTERSECT_FC the assessment uses, after step 2's AddField
\* calls: PRED_FIELD where SEG_FC has it, NameD, the area and the three added
\* fields.  (The other attributes of the two inputs are carried over as well.)
IntersectFields(tag) ==
    (seg_fields \cap { PredFieldOf(tag) })
    \cup { REF_CLASS_FIELD, "Shape_Area", REFCLASS_FIELD, PREDCLASS_FIELD(tag), CORRECT_FIELD(tag) }

\* OUT_GDB after a complete run of the assessment.
AssessmentOutputs(db, run_tag, tag) ==
    LET db1 == Put(db, INTERSECT_FC(OUT_GDB, run_tag, tag), IntersectFields(tag))
        db2 == Put(db1, CM_TBL(OUT_GDB, run_tag, tag),
                   SeqRange(StatisticsFields(<< REFCLASS_FIELD, PREDCLASS_FIELD(tag) >>)))
        db3 == Put(db2, REFTOTALS_TBL(OUT_GDB, run_tag, tag),
                   SeqRange(StatisticsFields(<< REFCLASS_FIELD >>)))
        db4 == Put(db3, PREDTOTALS_TBL(OUT_GDB, run_tag, tag),
                   SeqRange(StatisticsFields(<< PREDCLASS_FIELD(tag) >>)))
        db5 == Put(db4, PERCLASS_TBL(OUT_GDB, run_tag, tag), SeqRange(PerClassColumns))
    IN  Put(db5, OA_TBL(OUT_GDB, run_tag, tag), SeqRange(OAColumns))

\* SEG_FC holds the predictions of the four classifiers, OUT_GDB is empty.
InitFlow ==
    /\ EnsIdle
    /\ AccIdle
    /\ gdb = << >>
    /\ seg_fields = { ClassFieldOf(clf) : clf \in CLFS }
    /\ e5_labels = FALSE
    /\ assessed = {}
    /\ png = FALSE

\* One run of accuracy_1pass_assessment.py.  CalculateField raises where
\* PRED_FIELD is no field of the intersect output, after INTERSECT_FC is
\* written and before any table is.
RunAssessment ==
    /\ \E run_tag \in RunTags, tag \in Tags :
          IF PredFieldOf(tag) \in IntersectFields(tag)
          THEN /\ gdb' = AssessmentOutputs(gdb, run_tag, tag)
               /\ assessed' = assessed \cup { << run_tag, tag >> }
          ELSE /\ gdb' = Put(gdb, INTERSECT_FC(OUT_GDB, run_tag, tag), IntersectFields(tag))
               /\ assessed' = assessed
    /\ UNCHANGED << seg_fields, e5_labels, png, ensVars, accVars >>

\* One run of ensemble_E5_classification.py: ensure_fields, then
\* build_weight_dict, which raises where one of the four tables cannot be
\* read, then the update cursor that writes the labels.
RunEnsemble ==
    /\ seg_fields' = seg_fields \cup { E5_FIELD, E5_SRC_FIELD, E5_SCORE_FIELD }
    /\ \E tbl \in TblSettings, metric_col \in { WEIGHT_METRIC_COL, "F1_Score" } :
          e5_labels' = IF \A clf \in CLFS : CanRead(gdb, tbl[clf], { "Class", metric_col })
                       THEN TRUE ELSE e5_labels
    /\ UNCHANGED << gdb, assessed, png, ensVars, accVars >>

\* One run of accuracy_confusion_matrix.py: TableToNumPyArray raises where the
\* table cannot be read, before the figure is saved.
RunConfusionMatrix ==
    /\ png' = IF CanRead(gdb, conf_matrix_table, SeqRange(CM_READ_FIELDS)) THEN TRUE ELSE png
    /\ UNCHANGED << gdb, seg_fields, e5_labels, assessed, ensVars, accVars >>

NextFlow == RunAssessment \/ RunEnsemble \/ RunConfusionMatrix

SpecFlow == InitFlow /\ [][NextFlow]_vars

(***************************************************************************)
(* Properties of the ensemble script.                                      *)
(***************************************************************************)
\* The classifiers of the row that hold a prediction, and the classes predicted.
Voting == { clf \in CLFS : row.vals[clf] \notin { None, "" } }

Predicted == { row.vals[clf] : clf \in Voting }

VotersFor(c) == { clf \in Voting : row.vals[clf] = c }

\* Wnorm[c][clf], 0 when the class or the classifier is missing from Wnorm.
WeightAt(c, clf) ==
    IF c \in DOMAIN Wnorm /\ clf \in DOMAIN Wnorm[c] THEN Wnorm[c][clf] ELSE Zero

RECURSIVE WeightSum(_, _)
\* The sum of Wnorm[c][clf] over the classifiers clf in S.
WeightSum(c, S) ==
    IF S = {} THEN Zero
    ELSE LET clf == CHOOSE x \in S : TRUE
         IN  FAdd(WeightAt(c, clf), WeightSum(c, S \ { clf }))

ClassScore(c) == WeightSum(c, VotersFor(c))

\* The classes of maximal score.
Leaders == { c \in Predicted : \A o \in Predicted : FLe(ClassScore(o), ClassScore(c)) }

\* The entry pick_ensemble_label's score dict holds for class c.
ScoreEntries(c) ==
    { row.res.votes[i].score : i \in { j \in 1..Len(row.res.votes) : row.res.votes[j].cls = c } }

\* C1: for a segment with at least one non-empty prediction, pick_ensemble_label
\* scores every predicted class, and only those, with the sum of Wnorm[class][clf]
\* over the classifiers that predicted it (0 for a class or classifier missing
\* from Wnorm), and when exactly one class has the maximum score it returns it.
C1_WeightedVote ==
    (pc = "written" /\ Predicted # {}) =>
        /\ { row.res.votes[i].cls : i \in 1..Len(row.res.votes) } = Predicted
        /\ \A c \in Predicted : ScoreEntries(c) = { ClassScore(c) }
        /\ \A c \in Predicted : Leaders = { c } => row.res.winner = c

\* A class with fewer voters wins the vote alone on weight, against a class that
\* is missing from Wnorm and one that is not.
C1_Witness ==
    /\ pc = "written"
    /\ \E c \in Predicted :
          /\ Leaders = { c }
          /\ row.res.winner = c
          /\ \E o \in Predicted : Cardinality(VotersFor(o)) > Cardinality(VotersFor(c))
                                  /\ FPos(ClassScore(o))
          /\ \E o \in Predicted : o \notin DOMAIN Wnorm

\* The mean elevation is known and strictly below / at or below the threshold.
MeanBelow == ~row.mean_z.null /\ row.mean_z.z < ELEV_THRESH

MeanAtOrBelow == ~row.mean_z.null /\ row.mean_z.z < ELEV_THRESH + 1

SvmSaysWater == SVM_RIVER_CLF \in Voting /\ row.vals[SVM_RIVER_CLF] = CLS_WATER

TopWeight(c) ==
    LET ws == { WeightAt(c, clf) : clf \in VotersFor(c) }
    IN  CHOOSE w \in ws : \A v \in ws : FLe(v, w)

\* The tied classes whose best single voter is heaviest.
HeaviestLeaders == { c \in Leaders : \A o \in Leaders : FLe(TopWeight(o), TopWeight(c)) }

\* The class, among S, voted for by the classifier earliest in CLF_PRIORITY.
FirstByPriority(S) ==
    LET i == CHOOSE k \in 1..Len(CLF_PRIORITY) :
                 /\ CLF_PRIORITY[k] \in Voting /\ row.vals[CLF_PRIORITY[k]] \in S
                 /\ \A j \in 1..(k - 1) :
                        ~(CLF_PRIORITY[j] \in Voting /\ row.vals[CLF_PRIORITY[j]] \in S)
    IN  row.vals[CLF_PRIORITY[i]]

\* C5: when two or more classes share the maximum score, the winner is the tied
\* class whose best single voter has the largest normalized weight, and if that
\* is still tied the tied class voted for by the classifier earliest in
\* CLF_PRIORITY; the result is one of the predicted classes.
C5_TieBreak ==
    (pc = "written" /\ Predicted # {}) =>
        /\ row.res.winner \in Predicted
        /\ Cardinality(Leaders) >= 2 =>
              /\ row.res.winner \in HeaviestLeaders
              /\ row.res.winner = FirstByPriority(HeaviestLeaders)

\* A tie that the best single voter settles, against the class seen first.
C5_WitnessTop ==
    /\ pc = "written"
    /\ Cardinality(Leaders) >= 2
    /\ Cardinality(HeaviestLeaders) = 1
    /\ row.res.votes[1].cls \in Leaders \ HeaviestLeaders

\* A tie of three classes that only the classifier priority settles, against
\* the class seen first; and (in another state) one the best single voter settles.
C5_Witness ==
    /\ pc = "written"
    /\ Cardinality(Leaders) >= 2
    /\ Cardinality(HeaviestLeaders) >= 2
    /\ \E c \in HeaviestLeaders : FPos(ClassScore(c))
    /\ row.res.winner # row.res.votes[1].cls

RECURSIVE JoinByPriority(_, _)
\* The classifiers of S joined with "+", in CLF_PRIORITY order from index i on.
JoinByPriority(S, i) ==
    IF i > Len(CLF_PRIORITY) THEN ""
    ELSE LET rest == JoinByPriority(S, i + 1)
         IN  IF CLF_PRIORITY[i] \notin S THEN rest
             ELSE IF rest = "" THEN CLF_PRIORITY[i]
             ELSE CLF_PRIORITY[i] \o "+" \o rest

\* C6: E5_src is the "+"-joined list of exactly the classifiers whose prediction
\* equals the written E5, in CLF_PRIORITY order, and E5_score is the sum of
\* Wnorm[E5][clf] over exactly those classifiers; with no prediction at all,
\* E5 and E5_src are null and E5_score is 0.0.
C6_Provenance ==
    pc = "written" =>
        IF Predicted = {}
        THEN row.E5 = None /\ row.E5_src = None /\ row.E5_score = Zero
        ELSE /\ row.E5 \in Predicted
             /\ row.E5_src = JoinByPriority(VotersFor(row.E5), 1)
             /\ row.E5_score = ClassScore(row.E5)

\* The override wrote WATER BODY over another winner, for two voters whose
\* priority order is not their field order.
C6_Witness ==
    /\ pc = "written"
    /\ row.res.winner # row.E5
    /\ row.E5_src = "SVMv11A2D60+RTv11A2D50"
    /\ FPos(row.E5_score)

(***************************************************************************)
(* Properties of the weights.                                              *)
(***************************************************************************)
RECURSIVE NormSum(_, _)
\* The sum of class cls's normalized weights over the classifiers in S.
NormSum(cls, S) ==
    IF S = {} THEN Zero
    ELSE LET clf == CHOOSE x \in S : TRUE
         IN  FAdd(Wnorm[cls][clf], NormSum(cls, S \ { clf }))

One == [n |-> 1, d |-> 1]

FiniteRaw(cls) == \A clf \in CLFS : IsFinite(raw[cls][clf])

InUnit(w) == w.d > 0 /\ 0 <= w.n /\ w.n <= w.d

\* The cell float() and the clamp make 0.0: NaN, null, not a number, negative.
CountsAsZero(cell) ==
    cell.kind \in { "nan", "null", "text", "absent" } \/ (cell.kind = "num" /\ cell.v < 0)

InSomeTable(cls) == \E clf \in CLFS : tables[clf][cls].kind # "absent"

\* What C4 says of class cls.
WeightsWellFormed(cls) ==
    /\ cls \in DOMAIN Wnorm
    /\ DOMAIN Wnorm[cls] = CLFS
    /\ \A clf \in CLFS : InUnit(Wnorm[cls][clf])
    /\ \A clf \in CLFS : CountsAsZero(tables[clf][cls]) => raw[cls][clf] = Zero

\* C4: for any table contents, Wnorm has an entry in [0, 1] for each of the four
\* classifiers for every class in at least one table; NaN, null, non-numeric,
\* negative and absent metric values count as 0.0.
C4_WeightRange ==
    pc = "loop" => \A cls \in TblClasses : InSomeTable(cls) => WeightsWellFormed(cls)

\* C4 holds of the classes none of whose metric values is infinite.
C4_FiniteTables ==
    pc = "loop" =>
        \A cls \in TblClasses :
            (InSomeTable(cls) /\ \A clf \in CLFS : tables[clf][cls].kind # "inf")
                => WeightsWellFormed(cls)

\* An infinite metric value makes a weight NaN.
C4_InfMakesNaN ==
    /\ pc = "loop"
    /\ \E cls \in DOMAIN Wnorm : \E clf \in CLFS :
          tables[clf][cls].kind = "inf" /\ IsNaN(Wnorm[cls][clf])

(***************************************************************************)
(* Properties of the order of the scripts.                                 *)
(***************************************************************************)
\* The assessment has completed for the tag, under some run tag.
AssessedFor(tag) == \E run_tag \in RunTags : << run_tag, tag >> \in assessed

C8_ConfusionMatrixInput ==
    /\ conf_matrix_table = CM_TBL(OUT_GDB, "TrialRunXX", "E5")
    /\ RUN_TAG = "TrialRunXX" /\ TAG = "E5"
    /\ SeqRange(CM_READ_FIELDS) = { REFCLASS_FIELD, PREDCLASS_FIELD("E5"), StatField("SUM", "Shape_Area") }
    /\ conf_matrix_table \in DOMAIN gdb <=> << "TrialRunXX", "E5" >> \in assessed
    /\ conf_matrix_table \in DOMAIN gdb => SeqRange(CM_READ_FIELDS) \subseteq gdb[conf_matrix_table]
    /\ png => << "TrialRunXX", "E5" >> \in assessed

\* The confusion-matrix script has read the table and saved its figure.
C8_Witness ==
    /\ png
    /\ conf_matrix_table \in DOMAIN gdb
    /\ << "TrialRunXX", "E5" >> \in assessed

(***************************************************************************)
(* Properties of the accuracy assessment.                                  *)
(***************************************************************************)
\* Exact arithmetic on finite numbers n/d.
Plus(a, b) == Rat(a.n * b.d + b.n * a.d, a.d * b.d)

Minus(a, b) == Rat(a.n * b.d - b.n * a.d, a.d * b.d)

Times(a, b) == Rat(a.n * b.n, a.d * b.d)

\* a / b, and 0 where b is 0.
Quot(a, b) == IF b.n = 0 THEN [n |-> 0, d |-> 1] ELSE Rat(a.n * b.d, a.d * b.n)

\* The metric columns have been computed.
MetricsComputed == apc \in { "perclass", "done", "raised" }

C10_CorrectFlag ==
    [][(apc = "calculated" /\ apc' = "updated") =>
          /\ Len(isect') = Len(isect)
          /\ \A i \in 1..Len(isect) :
                /\ isect'[i].RefClass = isect[i].RefClass
                /\ isect'[i].PredClass = isect[i].PredClass
                /\ isect'[i].Correct \in { 0, 1 }
                /\ isect'[i].Correct = 1 <=>
                      (/\ isect[i].RefClass # None
                       /\ isect[i].PredClass # None
                       /\ isect[i].RefClass = isect[i].PredClass)]_vars

\* The cursor has run over a row of equal classes and a row of two nulls.
C10_Witness ==
    /\ apc = "updated"
    /\ \E i, j \in 1..Len(isect) :
          /\ isect[i].Correct = 1
          /\ isect[j].RefClass = None
          /\ isect[j].PredClass = None
          /\ isect[j].Correct = 0

\* The per-class table has been written.
TableWritten == apc \in { "perclass", "done" }

\* The class is the RefClass of some intersect row.
IsReferenceClass(c) == \E i \in 1..Len(isect) : isect[i].RefClass = c

\* The class is the <TAG>_PredClass of some intersect row.
IsPredictedClass(c) == \E i \in 1..Len(isect) : isect[i].PredClass = c

\* Some intersect row of the class is predicted as the class.
IsPredictedCorrectly(c) ==
    \E i \in 1..Len(isect) : isect[i].RefClass = c /\ isect[i].PredClass = c

\* The number of rows of the per-class table for the class.
RowsOf(c) == Cardinality({ i \in 1..Len(class_col) : class_col[i] = c })

\* C11: the per-class table written has exactly one row for every class that
\* is the RefClass of an intersect row and no row for a class that is only a
\* predicted class; the row's Correct_Area and Pred_Total_Area are numbers,
\* and are 0.0 for a class never predicted correctly, or never predicted.
C11_KeepsReferenceClasses ==
    TableWritten =>
        \A c \in AccClasses :
            /\ IsReferenceClass(c) => RowsOf(c) = 1
            /\ ~IsReferenceClass(c) => RowsOf(c) = 0 /\ c \notin DOMAIN perclass
            /\ IsReferenceClass(c) =>
                  /\ c \in DOMAIN perclass
                  /\ perclass[c].Correct_Area.d > 0
                  /\ perclass[c].Pred_Total_Area.d > 0
                  /\ ~IsPredictedCorrectly(c) => perclass[c].Correct_Area.n = 0
                  /\ ~IsPredictedClass(c) => perclass[c].Pred_Total_Area.n = 0

\* The table is written from rows with a reference class that is never
\* predicted and a class that is only predicted.
C11_Witness ==
    /\ TableWritten
    /\ \E c \in AccClasses :
          IsReferenceClass(c) /\ ~IsPredictedClass(c) /\ RowsOf(c) = 1
    /\ \E c \in AccClasses :
          ~IsReferenceClass(c) /\ IsPredictedClass(c) /\ RowsOf(c) = 0

(***************************************************************************)
(* Properties of the low-confidence fallback.                              *)
(***************************************************************************)
\* The voters of the class holding the largest normalized weight among them.
TopVoters(c) ==
    { clf \in VotersFor(c) : \A o \in VotersFor(c) : FLe(WeightAt(c, o), WeightAt(c, clf)) }

\* C12: with use_lowconf true, the fallback runs exactly when the score of
\* the vote winner is below tau; the label returned is then the prediction of
\* a voter of the vote winner of largest normalized weight and the score
\* returned is the sum of Wnorm[label][clf] over the classifiers predicting
\* that label; with the winning score at or above tau the vote winner and its
\* score are returned as they are.
C12_LowConfFallback ==
    (pc = "written" /\ Predicted # {}) =>
        /\ row.res.vote \in Leaders
        /\ row.res.lowconf <=> FLt(ClassScore(row.res.vote), TAU)
        /\ IF FLt(ClassScore(row.res.vote), TAU)
           THEN /\ \E clf \in TopVoters(row.res.vote) : row.res.winner = row.vals[clf]
                /\ row.res.winner \in Predicted
                /\ row.res.score = ClassScore(row.res.winner)
           ELSE /\ row.res.winner = row.res.vote
                /\ row.res.score = ClassScore(row.res.vote)

\* The fallback ran on a vote winner whose voters hold different weights.
C12_Witness ==
    /\ pc = "written"
    /\ Predicted # {}
    /\ row.res.lowconf
    /\ \E a, b \in VotersFor(row.res.vote) :
          FLt(WeightAt(row.res.vote, a), WeightAt(row.res.vote, b))

\* A row whose winning score is exactly tau: the fallback did not run.
C12_WitnessAtTau ==
    /\ pc = "written"
    /\ Predicted # {}
    /\ ClassScore(row.res.vote) = TAU
    /\ ~row.res.lowconf

====
